---- MODULE Spec2Model ----
(***************************************************************************)
(* Model of azure-blob-fuse: the BlobContainer (src/blob_container.rs)     *)
(* that turns a flat blob listing into an inode tree, and the FUSE         *)
(* handlers of BlobFilesystem (src/filesystem.rs) that serve it.           *)
(*                                                                         *)
(* Strings are sequences of one-character strings, so that split('/'),     *)
(* join("/"), Path::parent and Path::file_name are computed, not assumed.  *)
(***************************************************************************)
EXTENDS Integers, Sequences, FiniteSets, TLC

(* ------------------------------ bounds --------------------------------- *)
\* most records in a listing the mounted filesystem is explored with
MaxBlobs == 2
\* most records in a listing the construction is explored with
MaxBuildBlobs == 3
\* most '/'-separated segments in a blob name
MaxDepth == 3
\* longest content the remote store returns for a blob
MaxContentLen == 2
\* largest read offset the kernel sends
MaxOffset == 2
\* largest read length the kernel sends
MaxReadSize == 2
\* largest resumption offset readdir is called with
MaxDirOffset == 4
\* most entries a readdir reply buffer holds
MaxCap == 2
\* largest content_length a listing record reports
MaxListedSize == 1
\* most read requests the kernel has in flight at once
MaxInFlight == 2

(* ------------------------- program constants --------------------------- *)
\* fuser::FUSE_ROOT_ID
FUSE_ROOT_ID == 1
\* libc error codes used in the replies
ENOENT == "ENOENT"
EIO == "EIO"
ENOTDIR == "ENOTDIR"

(* ------------------------------ strings -------------------------------- *)
Sep == "/"
\* the characters blob-name segments are drawn from
Segs == {"a", "b"}
\* the characters of the names of more than one segment that the mounted
\* filesystem is explored with
ServeSegs == {"a"}
EmptyStr == << >>
Dot == <<".">>
DotDot == <<".", ".">>

\* Option<T>
None == [some |-> FALSE, val |-> << >>]
Some(v) == [some |-> TRUE, val |-> v]

HasSep(s) == \E i \in 1..Len(s) : s[i] = Sep
FirstSep(s) == CHOOSE i \in 1..Len(s) : s[i] = Sep /\ \A j \in 1..(i-1) : s[j] # Sep
LastSep(s) == CHOOSE i \in 1..Len(s) : s[i] = Sep /\ \A j \in (i+1)..Len(s) : s[j] # Sep

\* str::split('/'): the pieces between separators; "" splits into [""]
RECURSIVE Split(_)
Split(s) ==
    IF ~HasSep(s) THEN <<s>>
    ELSE <<SubSeq(s, 1, FirstSep(s) - 1)>> \o Split(SubSeq(s, FirstSep(s) + 1, Len(s)))

\* [&str]::join("/")
RECURSIVE Join(_)
Join(parts) ==
    IF Len(parts) = 0 THEN EmptyStr
    ELSE IF Len(parts) = 1 THEN parts[1]
    ELSE parts[1] \o <<Sep>> \o Join(Tail(parts))

\* the text before the last '/' of a name ("" when it has none)
ParentOf(s) == IF HasSep(s) THEN SubSeq(s, 1, LastSep(s) - 1) ELSE EmptyStr

\* the text after the last '/' of a name
LastSegment(s) == IF HasSep(s) THEN SubSeq(s, LastSep(s) + 1, Len(s)) ELSE s

\* A name made of non-empty segments separated by single '/'.
ValidName(s) ==
    /\ Len(s) > 0
    /\ s[1] # Sep
    /\ s[Len(s)] # Sep
    /\ \A i \in 1..(Len(s) - 1) : ~(s[i] = Sep /\ s[i+1] = Sep)

\* std::path::Path::parent, on the empty name and on valid names:
\* None for "", Some("") for a single segment, otherwise the text before the
\* last '/'.
PathParent(s) ==
    IF Len(s) = 0 THEN None
    ELSE Some(ParentOf(s))

\* std::path::Path::file_name().unwrap_or_default(), on the same names: the
\* text after the last '/'.
FileName(s) == LastSegment(s)

\* HashMap::insert
Put(m, k, v) == [x \in (DOMAIN m) \cup {k} |-> IF x = k THEN v ELSE m[x]]

(* ------------------------------ entries -------------------------------- *)
\* BlobInfo.data: Option<Bytes>
NoData == [some |-> FALSE, bytes |-> << >>]
Cached(b) == [some |-> TRUE, bytes |-> b]

\* BlobInfo { name, size, inode, data: None }
BlobInfo(name, size, inode) ==
    [kind |-> "File", name |-> name, size |-> size, inode |-> inode,
     data |-> NoData, entries |-> << >>]

\* BlobDirectory::new(inode, parent)
BlobDirectoryNew(inode, parent) ==
    [kind |-> "Directory", name |-> EmptyStr, size |-> 0, inode |-> inode,
     data |-> NoData, entries |-> Put(Put(<< >>, DotDot, parent), Dot, inode)]

\* BlobDirectory::root()
BlobDirectoryRoot ==
    [kind |-> "Directory", name |-> EmptyStr, size |-> 0, inode |-> FUSE_ROOT_ID,
     data |-> NoData,
     entries |-> Put(Put(<< >>, DotDot, FUSE_ROOT_ID), Dot, FUSE_ROOT_ID)]

\* BlobDirectory::add_file
AddFile(dir, name, inode) == [dir EXCEPT !.entries = Put(dir.entries, name, inode)]

(* ------------------------------- state --------------------------------- *)
VARIABLES
    listing,      \* the records the remote listing yields, in order
    pos,          \* how many of them load_blobs has processed
    phase,        \* "loading", "failed", "built", "mount_failed", "mounted", "crashed"
    blob_cache,   \* BlobContainer.blob_cache: path -> BlobEntry
    inode_map,    \* BlobContainer.inode_map: inode -> path
    next_inode,   \* BlobContainer.next_inode
    reply,        \* the call being served and its reply, until the kernel has it
    fetches,      \* history: blob name -> remote downloads that succeeded
    first_fetch,  \* history: blob name -> bytes of its first successful download
    failed,       \* history: blob names whose latest download attempt failed
    synthesized,  \* history: directory path -> calls of add_directory for it
    iter_order,   \* the directory iterated last and the order its HashMap showed
    session,      \* history: the listing session in progress on that directory
    pending,      \* read requests the kernel has sent and the session has not taken
    fetching      \* the download the session thread is blocked on, if any

vars == <<listing, pos, phase, blob_cache, inode_map, next_inode, reply,
          fetches, first_fetch, failed, synthesized, iter_order, session,
                   pending, fetching>>

\* the three fields of BlobContainer that the build mutates, as one value
Container == [blob_cache |-> blob_cache, inode_map |-> inode_map,
              next_inode |-> next_inode]

(* --------------------------- construction ------------------------------ *)
\* BlobContainer::add_directory
AddDirectory(c, name, inode, parent) ==
    LET bc1 == Put(c.blob_cache, name, BlobDirectoryNew(inode, parent))
        im1 == Put(c.inode_map, inode, name)
        bc2 == IF /\ parent \in DOMAIN im1
                  /\ im1[parent] \in DOMAIN bc1
                  /\ bc1[im1[parent]].kind = "Directory"
               THEN [bc1 EXCEPT ![im1[parent]] = AddFile(@, name, inode)]
               ELSE bc1
    IN [c EXCEPT !.blob_cache = bc2, !.inode_map = im1]

\* the body of the loop of BlobContainer::process_directories, for index i
RECURSIVE ProcessDirectoriesFrom(_, _, _, _)
ProcessDirectoriesFrom(c, path_parts, i, parent_inode) ==
    IF i >= Len(path_parts) THEN c
    ELSE LET dir_path == Join(SubSeq(path_parts, 1, i))
         IN IF dir_path \in DOMAIN c.blob_cache
               /\ c.blob_cache[dir_path].kind = "Directory"
            THEN ProcessDirectoriesFrom(c, path_parts, i + 1,
                                        c.blob_cache[dir_path].inode)
            ELSE ProcessDirectoriesFrom(
                     [AddDirectory(c, dir_path, c.next_inode, parent_inode)
                          EXCEPT !.next_inode = c.next_inode + 1],
                     path_parts, i + 1, c.next_inode)

\* BlobContainer::process_directories
ProcessDirectories(c, blob_name) ==
    ProcessDirectoriesFrom(c, Split(blob_name), 1, FUSE_ROOT_ID)

\* LoadItem, but the blob's inode is not entered in inode_map
LoadItemNoInodeMap(c, item) ==
    LET blob_name == item.name
        parent == PathParent(blob_name)
        c1 == IF parent.some THEN ProcessDirectories(c, blob_name) ELSE c
        parent_path == IF parent.some THEN parent.val ELSE EmptyStr
        inode == c1.next_inode
        im == c1.inode_map
        bc == Put(c1.blob_cache, blob_name, BlobInfo(blob_name, item.size, inode))
        bc2 == IF parent_path \in DOMAIN bc /\ bc[parent_path].kind = "Directory"
               THEN [bc EXCEPT ![parent_path] = AddFile(@, FileName(blob_name), inode)]
               ELSE bc
    IN [blob_cache |-> bc2, inode_map |-> im, next_inode |-> inode + 1]

\* LoadItem, but next_inode is not advanced after the blob got its inode
LoadItemNoBump(c, item) ==
    LET blob_name == item.name
        parent == PathParent(blob_name)
        c1 == IF parent.some THEN ProcessDirectories(c, blob_name) ELSE c
        parent_path == IF parent.some THEN parent.val ELSE EmptyStr
        inode == c1.next_inode
        im == Put(c1.inode_map, inode, blob_name)
        bc == Put(c1.blob_cache, blob_name, BlobInfo(blob_name, item.size, inode))
        bc2 == IF parent_path \in DOMAIN bc /\ bc[parent_path].kind = "Directory"
               THEN [bc EXCEPT ![parent_path] = AddFile(@, FileName(blob_name), inode)]
               ELSE bc
    IN [blob_cache |-> bc2, inode_map |-> im, next_inode |-> inode]

\* the body of the loop over blob_items in BlobContainer::load_blobs
LoadItem(c, item) ==
    LET blob_name == item.name
        parent == PathParent(blob_name)
        c1 == IF parent.some THEN ProcessDirectories(c, blob_name) ELSE c
        parent_path == IF parent.some THEN parent.val ELSE EmptyStr
        inode == c1.next_inode
        im == Put(c1.inode_map, inode, blob_name)
        bc == Put(c1.blob_cache, blob_name, BlobInfo(blob_name, item.size, inode))
        bc2 == IF parent_path \in DOMAIN bc /\ bc[parent_path].kind = "Directory"
               THEN [bc EXCEPT ![parent_path] = AddFile(@, FileName(blob_name), inode)]
               ELSE bc
    IN [blob_cache |-> bc2, inode_map |-> im, next_inode |-> inode + 1]

(* ------------------------------ lookups -------------------------------- *)
\* BlobContainer::get_entry_by_inode
GetEntryByInode(inode) ==
    IF inode \in DOMAIN inode_map /\ inode_map[inode] \in DOMAIN blob_cache
    THEN Some(blob_cache[inode_map[inode]])
    ELSE None

\* BlobContainer::get_directory
GetDirectory(inode) ==
    IF GetEntryByInode(inode).some /\ GetEntryByInode(inode).val.kind = "Directory"
    THEN GetEntryByInode(inode)
    ELSE None

(* ----------------------------- attributes ------------------------------ *)
\* u64::div_ceil
DivCeil(n, d) == (n + d - 1) \div d

\* impl From<&BlobEntry> for FileAttr (timestamps left out)
FileAttrFrom(entry) ==
    IF entry.kind = "File"
    THEN [ino |-> entry.inode, size |-> entry.size, blocks |-> DivCeil(entry.size, 512),
          kind |-> "RegularFile", perm |-> "644", nlink |-> 1, uid |-> "0", gid |-> "0"]
    ELSE [ino |-> entry.inode, size |-> 0, blocks |-> 0,
          kind |-> "Directory", perm |-> "755", nlink |-> 2, uid |-> "0", gid |-> "0"]

\* BlobFilesystem { user_id, group_id }: the --user-id and --group-id the
\* filesystem was started with
Config == [user_id |-> "uid", group_id |-> "gid"]

\* GetAttrs, but the owner and group of the conversion are left as they are
GetAttrsNoOwner(entry) == FileAttrFrom(entry)

\* BlobFilesystem::get_attrs
GetAttrs(entry) ==
    [FileAttrFrom(entry) EXCEPT !.uid = Config.user_id, !.gid = Config.group_id]

\* BlobFilesystem::get_inode_attrs
GetInodeAttrs(ino) ==
    IF GetEntryByInode(ino).some
    THEN Some(GetAttrs(GetEntryByInode(ino).val))
    ELSE None

(* ------------------------------ content -------------------------------- *)
\* what the remote store answers to a whole-blob download
FetchFails == [ok |-> FALSE, bytes |-> << >>]
FetchGives(b) == [ok |-> TRUE, bytes |-> b]

\* Download, but the downloaded bytes are returned without being stored
DownloadNoStore(blob, remote) ==
    IF blob.data.some
    THEN [blob |-> blob, ok |-> TRUE, bytes |-> blob.data.bytes, fetch |-> "none"]
    ELSE IF remote.ok
    THEN [blob |-> blob, ok |-> TRUE, bytes |-> remote.bytes, fetch |-> "ok"]
    ELSE [blob |-> blob, ok |-> FALSE, bytes |-> << >>, fetch |-> "failed"]

\* Download, but a failed download stores the empty body it got
DownloadStoresFailure(blob, remote) ==
    IF blob.data.some
    THEN [blob |-> blob, ok |-> TRUE, bytes |-> blob.data.bytes, fetch |-> "none"]
    ELSE IF remote.ok
    THEN [blob |-> [blob EXCEPT !.data = Cached(remote.bytes)], ok |-> TRUE,
          bytes |-> remote.bytes, fetch |-> "ok"]
    ELSE [blob |-> [blob EXCEPT !.data = Cached(<< >>)], ok |-> FALSE,
          bytes |-> << >>, fetch |-> "failed"]

\* Download, but the part of the body that came in before an error is stored
DownloadStoresPartial(blob, remote) ==
    IF blob.data.some
    THEN [blob |-> blob, ok |-> TRUE, bytes |-> blob.data.bytes, fetch |-> "none"]
    ELSE IF remote.ok
    THEN [blob |-> [blob EXCEPT !.data = Cached(remote.bytes)], ok |-> TRUE,
          bytes |-> remote.bytes, fetch |-> "ok"]
    ELSE [blob |-> [blob EXCEPT !.data = Cached(remote.bytes)], ok |-> FALSE,
          bytes |-> << >>, fetch |-> "failed"]

\* Download, but the blob is downloaded again when its content is cached
DownloadAlways(blob, remote) ==
    IF remote.ok
    THEN [blob |-> [blob EXCEPT !.data = Cached(remote.bytes)], ok |-> TRUE,
          bytes |-> remote.bytes, fetch |-> "ok"]
    ELSE [blob |-> blob, ok |-> FALSE, bytes |-> << >>, fetch |-> "failed"]

\* Download, but the size of the blob is set from the downloaded bytes as well
DownloadUpdatesSize(blob, remote) ==
    IF blob.data.some
    THEN [blob |-> blob, ok |-> TRUE, bytes |-> blob.data.bytes, fetch |-> "none"]
    ELSE IF remote.ok
    THEN [blob |-> [blob EXCEPT !.data = Cached(remote.bytes),
                                !.size = Len(remote.bytes)],
          ok |-> TRUE, bytes |-> remote.bytes, fetch |-> "ok"]
    ELSE [blob |-> blob, ok |-> FALSE, bytes |-> << >>, fetch |-> "failed"]

\* BlobInfo::download, run to completion by download_sync (creating the tokio
\* runtime, like allocating memory, is taken to succeed); remote is the answer
\* of the store, consulted only when nothing is cached
Download(blob, remote) ==
    IF blob.data.some
    THEN [blob |-> blob, ok |-> TRUE, bytes |-> blob.data.bytes, fetch |-> "none"]
    ELSE IF remote.ok
    THEN [blob |-> [blob EXCEPT !.data = Cached(remote.bytes)], ok |-> TRUE,
          bytes |-> remote.bytes, fetch |-> "ok"]
    ELSE [blob |-> blob, ok |-> FALSE, bytes |-> << >>, fetch |-> "failed"]

\* bytes::Bytes::slice(begin..end): asserts begin <= end and end <= len
BytesSlice(data, begin, end) ==
    IF begin > end \/ end > Len(data)
    THEN [panic |-> TRUE, bytes |-> << >>]
    ELSE [panic |-> FALSE, bytes |-> SubSeq(data, begin + 1, end)]

Min(a, b) == IF a <= b THEN a ELSE b

\* SliceWindow, but the end of the window is not clamped to the data
SliceWindowUnclamped(data, offset, size) ==
    BytesSlice(data, offset, offset + size)

\* the window download_blob cuts out of the downloaded data
SliceWindow(data, offset, size) ==
    BytesSlice(data, offset, Min(offset + size, Len(data)))

\* BlobContainer::download_blob: the new blob_cache and the Result (or panic)
DownloadBlob(inode, offset, size, remote) ==
    LET entry == GetEntryByInode(inode)
    IN IF entry.some /\ entry.val.kind = "File"
       THEN LET d == Download(entry.val, remote)
                bc == [blob_cache EXCEPT ![inode_map[inode]] = d.blob]
                w == SliceWindow(d.bytes, offset, size)
            IN IF ~d.ok
               THEN [blob_cache |-> bc, result |-> "Err", bytes |-> << >>, fetch |-> d.fetch]
               ELSE IF w.panic
               THEN [blob_cache |-> bc, result |-> "panic", bytes |-> << >>, fetch |-> d.fetch]
               ELSE [blob_cache |-> bc, result |-> "Ok", bytes |-> w.bytes, fetch |-> d.fetch]
       ELSE [blob_cache |-> blob_cache, result |-> "Err", bytes |-> << >>, fetch |-> "none"]

(* ------------------------------ replies -------------------------------- *)
NoAttr == [ino |-> 0, size |-> 0, blocks |-> 0, kind |-> "none", perm |-> "",
           nlink |-> 0, uid |-> "", gid |-> ""]

\* the call a handler got and what it replied; kind is "attr", "entry",
\* "dir", "data", "error", or "panic" when the handler unwound without replying.
\* Three history fields say what a read did: fetch is "ok" or "failed" when it
\* downloaded from the remote store and "none" when it did not; retry holds
\* when the latest download attempt for the same blob had failed; queued holds
\* when the request was in flight while the same blob was being downloaded.
NoReply ==
    [op |-> "none", ino |-> 0, offset |-> 0, size |-> 0, name |-> EmptyStr,
     kind |-> "none", code |-> "", data |-> << >>, attr |-> NoAttr,
     entries |-> << >>, fetch |-> "none", retry |-> FALSE, queued |-> FALSE]

\* BlobFilesystem::getattr
GetattrReply(ino) ==
    LET attr == GetInodeAttrs(ino)
        call == [NoReply EXCEPT !.op = "getattr", !.ino = ino]
    IN IF attr.some
       THEN [call EXCEPT !.kind = "attr", !.attr = attr.val]
       ELSE [call EXCEPT !.kind = "error", !.code = ENOENT]

\* LookupReply, but a parent that is no directory is reported as ENOENT
LookupReplyAllNotFound(parent, name) ==
    LET entry == GetEntryByInode(parent)
        call == [NoReply EXCEPT !.op = "lookup", !.ino = parent, !.name = name]
    IN IF entry.some /\ entry.val.kind = "Directory"
          /\ name \in DOMAIN entry.val.entries
          /\ GetEntryByInode(entry.val.entries[name]).some
       THEN [call EXCEPT !.kind = "entry",
                !.attr = GetAttrs(GetEntryByInode(entry.val.entries[name]).val)]
       ELSE [call EXCEPT !.kind = "error", !.code = ENOENT]

\* BlobFilesystem::lookup
LookupReply(parent, name) ==
    LET entry == GetEntryByInode(parent)
        call == [NoReply EXCEPT !.op = "lookup", !.ino = parent, !.name = name]
    IN IF entry.some /\ entry.val.kind = "Directory"
       THEN IF name \in DOMAIN entry.val.entries
            THEN IF GetEntryByInode(entry.val.entries[name]).some
                 THEN [call EXCEPT !.kind = "entry",
                          !.attr = GetAttrs(
                                       GetEntryByInode(entry.val.entries[name]).val)]
                 ELSE [call EXCEPT !.kind = "error", !.code = ENOENT]
            ELSE [call EXCEPT !.kind = "error", !.code = ENOENT]
       ELSE [call EXCEPT !.kind = "error", !.code = ENOTDIR]

\* ReaddirEntries, but the iteration starts at the first child whatever the
\* offset (the skip is missing)
ReaddirEntriesFromStart(dir, order, offset, cap) ==
    LET last == Min(Len(order), cap)
        seen == Min(Len(order), cap + 1)
        child(k) == GetEntryByInode(dir.entries[order[k]])
    IN IF \E k \in 1..seen : ~child(k).some
       THEN [panic |-> TRUE, entries |-> << >>]
       ELSE [panic |-> FALSE,
             entries |-> [j \in 1..last |->
                            [ino |-> dir.entries[order[j]],
                             offset |-> offset + j,
                             kind |-> IF child(j).val.kind = "Directory"
                                      THEN "Directory" ELSE "RegularFile",
                             name |-> order[j]]]]

\* the loop of BlobFilesystem::readdir over dir.entries.iter().skip(offset),
\* with a reply buffer that holds cap entries
ReaddirEntries(dir, order, offset, cap) ==
    LET last == Min(Len(order), offset + cap)
        seen == Min(Len(order), offset + cap + 1)
        child(k) == GetEntryByInode(dir.entries[order[k]])
    IN IF \E k \in (offset + 1)..seen : ~child(k).some
       THEN [panic |-> TRUE, entries |-> << >>]
       ELSE [panic |-> FALSE,
             entries |-> [j \in 1..(IF last > offset THEN last - offset ELSE 0) |->
                            [ino |-> dir.entries[order[offset + j]],
                             offset |-> offset + j,
                             kind |-> IF child(offset + j).val.kind = "Directory"
                                      THEN "Directory" ELSE "RegularFile",
                             name |-> order[offset + j]]]]

\* BlobFilesystem::readdir
ReaddirReply(ino, order, offset, cap) ==
    LET dir == GetDirectory(ino)
        call == [NoReply EXCEPT !.op = "readdir", !.ino = ino, !.offset = offset,
                                !.size = cap]
    IN IF dir.some
       THEN LET r == ReaddirEntries(dir.val, order, offset, cap)
            IN IF r.panic THEN [call EXCEPT !.kind = "panic"]
               ELSE [call EXCEPT !.kind = "dir", !.entries = r.entries]
       ELSE [call EXCEPT !.kind = "error", !.code = ENOTDIR]

\* BlobFilesystem::read
ReadReply(ino, offset, size, remote) ==
    LET result == DownloadBlob(ino, offset, size, remote)
        call == [NoReply EXCEPT !.op = "read", !.ino = ino, !.offset = offset,
                                !.size = size, !.fetch = result.fetch]
    IN IF result.result = "Ok" THEN [call EXCEPT !.kind = "data", !.data = result.bytes]
       ELSE IF result.result = "Err" THEN [call EXCEPT !.kind = "error", !.code = EIO]
       ELSE [call EXCEPT !.kind = "panic"]

(* ------------------------------- inputs -------------------------------- *)
\* names of exactly d one-character segments drawn from segs
RECURSIVE NamesOfDepth(_, _)
NamesOfDepth(segs, d) ==
    IF d = 1 THEN {<<c>> : c \in segs}
    ELSE {n \o <<Sep, c>> : n \in NamesOfDepth(segs, d - 1), c \in segs}

ValidNames(segs) == UNION {NamesOfDepth(segs, d) : d \in 1..MaxDepth}

\* the names a listing record can carry: the valid ones and the empty name
Names == ValidNames(Segs) \cup {EmptyStr}

\* fewer names: every one-segment name, the deeper names over ServeSegs and
\* the empty name
ServeNames == NamesOfDepth(Segs, 1) \cup ValidNames(ServeSegs) \cup {EmptyStr}

\* BlobItem: name and properties.content_length
Records(names, sizes) == [name : names, size : sizes]

\* a container holds one blob per name: listings of n records, names distinct
RECURSIVE ListingsOfLen(_, _)
ListingsOfLen(records, n) ==
    IF n = 0 THEN {<< >>}
    ELSE {l \in {Append(h, r) : h \in ListingsOfLen(records, n - 1), r \in records} :
             \A i \in 1..(n - 1) : l[i].name # l[n].name}

Listings(records, most) == UNION {ListingsOfLen(records, n) : n \in 0..most}

\* contents the remote store can hold for a blob: bytes 1..n for each length n
Contents == {[i \in 1..n |-> i] : n \in 0..MaxContentLen}

Remotes == {FetchFails} \cup {FetchGives(b) : b \in Contents}

\* names the kernel looks up: one segment, never containing '/'
LookupNames == {<<c>> : c \in Segs} \cup {Dot, DotDot}

\* inodes the kernel may pass: all that were handed out, and one that was not
Inodes == 1..next_inode

\* the orders in which a HashMap with this key set can iterate
Perms(S) ==
    {o \in [1..Cardinality(S) -> S] : \A i, j \in 1..Cardinality(S) : o[i] = o[j] => i = j}

\* no directory has been iterated yet
NoOrder == [path |-> None, order |-> << >>]

\* HashMap::iter on the children of the directory at path: an unmodified map
\* iterates in the same order again; nothing else is known of the order.  Only
\* the map iterated last is remembered, so the order of a map may differ after
\* another map was iterated (more orders than the program shows, never fewer).
IterOrders(path, dir) ==
    IF iter_order.path = Some(path) THEN {iter_order.order}
    ELSE Perms(DOMAIN dir.entries)

\* the session thread is not downloading
NoFetch == [some |-> FALSE, ino |-> 0, offset |-> 0, size |-> 0, queued |-> FALSE,
            content |-> << >>, got |-> << >>]

\* no listing session is in progress
NoSession == [path |-> None, emitted |-> << >>, done |-> FALSE]

\* a listing session, as the kernel runs it: the first readdir of a directory
\* has offset 0, each following one the count of entries emitted so far; done
\* says that a call of the session came back empty.  A readdir of the same
\* directory at another offset is no call of the session; a readdir of another
\* directory ends it (see IterOrders).
SessionAfter(path, offset, entries) ==
    IF offset = 0
    THEN [path |-> Some(path), emitted |-> entries, done |-> entries = << >>]
    ELSE IF session.path # Some(path) THEN NoSession
    ELSE IF offset = Len(session.emitted)
    THEN [session EXCEPT !.emitted = @ \o entries, !.done = @ \/ entries = << >>]
    ELSE session

(* ------------------------------- actions ------------------------------- *)
\* BlobContainer::new up to the call of load_blobs
Start(listings) ==
    /\ listing \in listings
    /\ pos = 0
    /\ phase = "loading"
    /\ blob_cache = Put(<< >>, EmptyStr, BlobDirectoryRoot)
    /\ inode_map = Put(<< >>, FUSE_ROOT_ID, EmptyStr)
    /\ next_inode = 2
    /\ reply = NoReply
    /\ fetches = << >>
    /\ first_fetch = << >>
    /\ failed = {}
    /\ synthesized = << >>
    /\ iter_order = NoOrder
    /\ session = NoSession
    /\ pending = << >>
    /\ fetching = NoFetch

\* the mounted filesystem is explored over listings of fewer names and one
\* listed size
Init == Start(Listings(Records(ServeNames, {MaxListedSize}), MaxBlobs))

\* the listing sessions are explored over listings of fewer names and all sizes
InitList == Start(Listings(Records(ServeNames, 0..MaxListedSize), MaxBlobs))

\* the construction is explored over listings of all names and sizes
InitBuild == Start(Listings(Records(Names, 0..MaxListedSize), MaxBuildBlobs))

\* the paths add_directory was called for while load_blobs processed one blob
\* item and came from Container to c: process_directories gives each of them
\* one of the identifiers from next_inode on, and the last new identifier goes
\* to the blob itself
CountSynthesized(c) ==
    LET new == {c.inode_map[i] : i \in next_inode..(c.next_inode - 2)}
    IN [p \in (DOMAIN synthesized) \cup new |->
           (IF p \in DOMAIN synthesized THEN synthesized[p] ELSE 0)
           + (IF p \in new THEN 1 ELSE 0)]

\* load_blobs processes the next blob item of the listing
LoadBlob ==
    /\ phase = "loading"
    /\ pos < Len(listing)
    /\ LET c == LoadItem(Container, listing[pos + 1])
       IN /\ blob_cache' = c.blob_cache
          /\ inode_map' = c.inode_map
          /\ next_inode' = c.next_inode
    /\ pos' = pos + 1
    /\ synthesized' = CountSynthesized(LoadItem(Container, listing[pos + 1]))
    /\ UNCHANGED <<listing, phase, reply, fetches, first_fetch, failed, iter_order,
                   session, pending, fetching>>

\* the listing stream yields Err for a page: load_blobs and new return Err
ListingError ==
    /\ phase = "loading"
    /\ phase' = "failed"
    /\ UNCHANGED <<listing, pos, blob_cache, inode_map, next_inode, reply,
                   fetches, first_fetch, failed, synthesized, iter_order, session,
                   pending, fetching>>

\* the listing stream ends: load_blobs returns Ok and new returns the container
FinishLoad ==
    /\ phase = "loading"
    /\ pos = Len(listing)
    /\ phase' = "built"
    /\ UNCHANGED <<listing, pos, blob_cache, inode_map, next_inode, reply,
                   fetches, first_fetch, failed, synthesized, iter_order, session,
                   pending, fetching>>

\* Mount, but the filesystem is mounted without waiting for BlobContainer::new
MountEarly ==
    /\ phase \in {"loading", "built"}
    /\ phase' = "mounted"
    /\ UNCHANGED <<listing, pos, blob_cache, inode_map, next_inode, reply,
                   fetches, first_fetch, failed, synthesized, iter_order, session,
                   pending, fetching>>

\* main: fuser::spawn_mount2 succeeds
Mount ==
    /\ phase = "built"
    /\ phase' = "mounted"
    /\ UNCHANGED <<listing, pos, blob_cache, inode_map, next_inode, reply,
                   fetches, first_fetch, failed, synthesized, iter_order, session,
                   pending, fetching>>

\* main: fuser::spawn_mount2 fails
MountError ==
    /\ phase = "built"
    /\ phase' = "mount_failed"
    /\ UNCHANGED <<listing, pos, blob_cache, inode_map, next_inode, reply,
                   fetches, first_fetch, failed, synthesized, iter_order, session,
                   pending, fetching>>

\* the kernel calls getattr
Getattr ==
    /\ phase = "mounted"
    /\ reply = NoReply
    /\ \E ino \in Inodes : reply' = GetattrReply(ino)
    /\ UNCHANGED <<listing, pos, phase, blob_cache, inode_map, next_inode,
                   fetches, first_fetch, failed, synthesized, iter_order, session,
                   pending, fetching>>

\* the kernel calls lookup
Lookup ==
    /\ phase = "mounted"
    /\ reply = NoReply
    /\ \E parent \in Inodes, name \in LookupNames : reply' = LookupReply(parent, name)
    /\ UNCHANGED <<listing, pos, phase, blob_cache, inode_map, next_inode,
                   fetches, first_fetch, failed, synthesized, iter_order, session,
                   pending, fetching>>

\* BlobFilesystem::readdir called with a reply buffer that holds cap entries:
\* everything the handler does
ReaddirStep ==
    /\ phase = "mounted"
    /\ reply = NoReply
    /\ \E ino \in Inodes, offset \in 0..MaxDirOffset, cap \in 1..MaxCap :
          IF GetDirectory(ino).some
          THEN \E order \in IterOrders(inode_map[ino], GetDirectory(ino).val) :
                  /\ reply' = ReaddirReply(ino, order, offset, cap)
                  /\ iter_order' = [path |-> Some(inode_map[ino]), order |-> order]
                  /\ phase' = IF reply'.kind = "panic" THEN "crashed" ELSE phase
          ELSE /\ reply' = ReaddirReply(ino, << >>, offset, cap)
               /\ UNCHANGED <<iter_order, phase>>
    /\ UNCHANGED <<listing, pos, blob_cache, inode_map, next_inode,
                   fetches, first_fetch, failed, synthesized>>

\* the kernel calls readdir
Readdir == ReaddirStep /\ UNCHANGED <<session, pending, fetching>>

\* the kernel calls readdir, and the listing session it belongs to is recorded
ReaddirInSession ==
    /\ ReaddirStep
    /\ session' = IF reply'.kind = "dir"
                   THEN SessionAfter(inode_map[reply'.ino], reply'.offset, reply'.entries)
                   ELSE session
    /\ UNCHANGED <<pending, fetching>>

\* BlobFilesystem::read for one request; remote is what the store answers if
\* asked to download.  A panic unwinds the session thread: no reply, and no
\* later call is served.
ReadCall(ino, offset, size, remote, queued) ==
    LET result == DownloadBlob(ino, offset, size, remote)
        name == inode_map[ino]
    IN /\ reply' = [ReadReply(ino, offset, size, remote) EXCEPT
                        !.retry = (ino \in DOMAIN inode_map /\ name \in failed),
                        !.queued = queued]
       /\ blob_cache' = result.blob_cache
       /\ phase' = IF result.result = "panic" THEN "crashed" ELSE phase
       /\ IF result.fetch = "ok"
          THEN /\ fetches' = Put(fetches, name,
                                 IF name \in DOMAIN fetches
                                 THEN fetches[name] + 1 ELSE 1)
               /\ first_fetch' = IF name \in DOMAIN first_fetch THEN first_fetch
                                 ELSE Put(first_fetch, name, remote.bytes)
               /\ failed' = failed \ {name}
          ELSE IF result.fetch = "failed"
          THEN /\ failed' = failed \cup {name}
               /\ UNCHANGED <<fetches, first_fetch>>
          ELSE UNCHANGED <<fetches, first_fetch, failed>>
       /\ UNCHANGED <<listing, pos, inode_map, next_inode, synthesized, iter_order,
                      session>>

\* the kernel calls read
Read ==
    /\ phase = "mounted"
    /\ reply = NoReply
    /\ \E ino \in Inodes, offset \in 0..MaxOffset, size \in 0..MaxReadSize,
          remote \in Remotes : ReadCall(ino, offset, size, remote, FALSE)
    /\ UNCHANGED <<pending, fetching>>

\* the kernel sends a read request while the session thread may be busy: the
\* request waits in the FUSE channel
Arrive ==
    /\ phase = "mounted"
    /\ Len(pending) < MaxInFlight
    /\ \E ino \in Inodes : pending' = Append(pending, [ino |-> ino, queued |-> FALSE])
    /\ UNCHANGED <<listing, pos, phase, blob_cache, inode_map, next_inode, reply,
                   fetches, first_fetch, failed, synthesized, iter_order, session,
                   fetching>>

\* the session thread takes the next read request: a read that needs no
\* download is served at once, otherwise the thread blocks in download_sync
\* and the body of the blob (content is what the store holds now) starts to
\* come in
ReadBegin ==
    /\ phase = "mounted"
    /\ reply = NoReply
    /\ fetching = NoFetch
    /\ pending # << >>
    /\ pending' = Tail(pending)
    /\ \E offset \in 0..MaxOffset, size \in 0..MaxReadSize :
          LET ino == Head(pending).ino
              entry == GetEntryByInode(ino)
          IN IF entry.some /\ entry.val.kind = "File" /\ ~entry.val.data.some
             THEN /\ \E content \in Contents :
                        fetching' = [some |-> TRUE, ino |-> ino, offset |-> offset,
                                     size |-> size, queued |-> Head(pending).queued,
                                     content |-> content, got |-> << >>]
                  /\ UNCHANGED <<listing, pos, phase, blob_cache, inode_map,
                                 next_inode, reply, fetches, first_fetch, failed,
                                 synthesized, iter_order, session>>
             ELSE /\ ReadCall(ino, offset, size, FetchFails, Head(pending).queued)
                  /\ UNCHANGED fetching

\* collect(): the next byte of the body comes in
FetchChunk ==
    /\ fetching.some
    /\ Len(fetching.got) < Len(fetching.content)
    /\ fetching' = [fetching EXCEPT
                        !.got = SubSeq(fetching.content, 1, Len(fetching.got) + 1)]
    /\ UNCHANGED <<listing, pos, phase, blob_cache, inode_map, next_inode, reply,
                   fetches, first_fetch, failed, synthesized, iter_order, session,
                   pending>>

\* the download ends, with the whole body or with an error after a part of it,
\* and the handler goes on to its reply; the requests that came in meanwhile
\* for the same blob are marked
FetchEnd ==
    /\ fetching.some
    /\ \E ok \in {Len(fetching.got) = Len(fetching.content), FALSE} :
          ReadCall(fetching.ino, fetching.offset, fetching.size,
                   [ok |-> ok, bytes |-> fetching.got], fetching.queued)
    /\ fetching' = NoFetch
    /\ pending' = [i \in 1..Len(pending) |->
                      IF pending[i].ino = fetching.ino
                      THEN [pending[i] EXCEPT !.queued = TRUE] ELSE pending[i]]

\* the handler has returned: the kernel has the reply, and the session loop
\* (one thread, handlers take &mut self) reads the next request
Deliver ==
    /\ phase = "mounted"
    /\ reply # NoReply
    /\ reply' = NoReply
    /\ UNCHANGED <<listing, pos, phase, blob_cache, inode_map, next_inode,
                   fetches, first_fetch, failed, synthesized, iter_order, session,
                   pending, fetching>>

\* the filesystem, from construction to serving
Next ==
    \/ LoadBlob
    \/ ListingError
    \/ FinishLoad
    \/ Mount
    \/ MountError
    \/ Getattr
    \/ Lookup
    \/ Readdir
    \/ Read
    \/ Deliver

Spec == Init /\ [][Next]_vars

\* the filesystem with its listing sessions recorded.  Read is left out: it
\* assigns the data field of a File and nothing that readdir looks at.
NextList ==
    \/ LoadBlob
    \/ ListingError
    \/ FinishLoad
    \/ Mount
    \/ MountError
    \/ Getattr
    \/ Lookup
    \/ ReaddirInSession
    \/ Deliver

ListSpec == InitList /\ [][NextList]_vars

\* the filesystem with read requests that arrive while the session thread is
\* busy, and with downloads that take time: fuser's session loop runs on one
\* thread and the handlers take &mut self, so requests in flight together are
\* served one after the other
NextConc ==
    \/ LoadBlob
    \/ ListingError
    \/ FinishLoad
    \/ Mount
    \/ MountError
    \/ Arrive
    \/ ReadBegin
    \/ FetchChunk
    \/ FetchEnd
    \/ Deliver

ConcSpec == Init /\ [][NextConc]_vars

\* construction alone, over listings with more names
NextBuild ==
    \/ LoadBlob
    \/ ListingError
    \/ FinishLoad

BuildSpec == InitBuild /\ [][NextBuild]_vars

(* ======================= claims about the tree ========================= *)
\* every record of the listing carries a valid object name
AllValid == \A i \in 1..Len(listing) : ValidName(listing[i].name)

\* BlobContainer::new has returned the container
Constructed == phase \in {"built", "mounted", "mount_failed", "crashed"}

\* the text before the last '/' of a path ("" when it has none)
ParentPrefix(p) == ParentOf(p)

\* the last segment of a path
Basename(p) == LastSegment(p)

\* the path of the child named n of the directory at path p
ChildPath(p, n) == IF p = EmptyStr THEN n ELSE p \o <<Sep>> \o n

\* C1: after construction from valid object names, every entry other than root
\* has a parent prefix that names a Directory entry, and that Directory's
\* children map holds the entry's basename (its last segment, not its full
\* path) mapped to the entry's identifier.
C1_ParentListsBasename ==
    (Constructed /\ AllValid) =>
        \A p \in (DOMAIN blob_cache) \ {EmptyStr} :
            /\ ParentPrefix(p) \in DOMAIN blob_cache
            /\ blob_cache[ParentPrefix(p)].kind = "Directory"
            /\ Basename(p) \in DOMAIN blob_cache[ParentPrefix(p)].entries
            /\ blob_cache[ParentPrefix(p)].entries[Basename(p)] = blob_cache[p].inode

\* C2: after construction, for every Directory at path P and every child name
\* N of it other than "." and "..", N is a single path segment, there is an
\* entry at P/N (N when the Directory is root), and its identifier is the one
\* the Directory maps N to.
C2_ChildrenAreEntries ==
    (Constructed /\ AllValid) =>
        \A p \in DOMAIN blob_cache :
            blob_cache[p].kind = "Directory" =>
                \A n \in (DOMAIN blob_cache[p].entries) \ {Dot, DotDot} :
                    /\ ~HasSep(n)
                    /\ ChildPath(p, n) \in DOMAIN blob_cache
                    /\ blob_cache[ChildPath(p, n)].inode = blob_cache[p].entries[n]

\* C3: after processing any sequence of listing records (valid names,
\* including a name that is a directory prefix of another), inode_map and
\* blob_cache are in bijection: every identifier maps to a path that has an
\* entry, every entry's path is the image of an identifier, and no two
\* identifiers map to the same path.
C3_InodeMapBijection ==
    AllValid =>
        /\ \A i \in DOMAIN inode_map : inode_map[i] \in DOMAIN blob_cache
        /\ \A p \in DOMAIN blob_cache : \E i \in DOMAIN inode_map : inode_map[i] = p
        /\ \A i, j \in DOMAIN inode_map : inode_map[i] = inode_map[j] => i = j

(* ====================== claims about the handlers ====================== *)
\* the identifier of the call being served resolves to a File / a Directory /
\* nothing
OnFile == GetEntryByInode(reply.ino).some /\ GetEntryByInode(reply.ino).val.kind = "File"
OnDirectory ==
    GetEntryByInode(reply.ino).some /\ GetEntryByInode(reply.ino).val.kind = "Directory"
OnUnknown == ~GetEntryByInode(reply.ino).some

\* the cached-content field of the File the call is about
FileData == GetEntryByInode(reply.ino).val.data

\* the bytes c[offset .. min(offset + length, len(c)))
Window(c, offset, length) ==
    SubSeq(c, offset + 1, IF offset + length <= Len(c) THEN offset + length ELSE Len(c))

\* C4: a read of a File (of a tree built from valid names, its content
\* downloaded) at an offset greater than or equal to the content length replies
\* an empty byte sequence: no error, no panic.
C4_ReadPastEndIsEmpty ==
    (AllValid /\ reply.op = "read" /\ OnFile /\ FileData.some
        /\ reply.offset >= Len(FileData.bytes)) =>
            (reply.kind = "data" /\ reply.data = << >>)

\* C5: a read (offset, length) of a File with content c and
\* 0 <= offset <= len(c) replies exactly c[offset .. min(offset+length, len(c))),
\* so min(length, len(c) - offset) bytes.
C5_ReadClamps ==
    (reply.op = "read" /\ OnFile /\ FileData.some
        /\ reply.offset <= Len(FileData.bytes)) =>
            /\ reply.kind = "data"
            /\ reply.data = Window(FileData.bytes, reply.offset, reply.size)
            /\ Len(reply.data) =
                  (IF reply.size <= Len(FileData.bytes) - reply.offset
                   THEN reply.size ELSE Len(FileData.bytes) - reply.offset)

\* a read that started inside the content and was cut at its end
C5_Witness ==
    /\ reply.op = "read" /\ OnFile /\ FileData.some /\ reply.kind = "data"
    /\ 0 < reply.offset /\ reply.offset < Len(FileData.bytes)
    /\ reply.offset + reply.size > Len(FileData.bytes)
    /\ Len(reply.data) = Len(FileData.bytes) - reply.offset

\* C6: with handlers served one at a time, each File has at most one successful
\* remote fetch; once a fetch of it has succeeded, a later read of it makes no
\* remote fetch, and every read replies the window of the bytes fetched first,
\* so two reads with the same (offset, length) reply identical bytes.
C6_FetchedOnce ==
    /\ \A n \in DOMAIN fetches : fetches[n] <= 1
    /\ (reply.op = "read" /\ OnFile /\ reply.fetch = "failed") =>
           inode_map[reply.ino] \notin DOMAIN fetches
    /\ (reply.op = "read" /\ reply.kind = "data") =>
           /\ inode_map[reply.ino] \in DOMAIN first_fetch
           /\ reply.data = Window(first_fetch[inode_map[reply.ino]],
                                  reply.offset, reply.size)

\* a read served from the bytes an earlier read fetched
C6_Witness ==
    /\ reply.op = "read" /\ reply.kind = "data" /\ reply.fetch = "none"
    /\ reply.data # << >>
    /\ fetches[inode_map[reply.ino]] = 1

\* C7: when the remote fetch of a read fails, the read replies EIO and the
\* File's cached content stays absent; the next read of that File makes a
\* remote fetch again.
C7_FailedFetchNotCached ==
    /\ (reply.op = "read" /\ reply.fetch = "failed") =>
           (reply.kind = "error" /\ reply.code = EIO /\ OnFile /\ ~FileData.some)
    /\ \A n \in failed : n \in DOMAIN blob_cache /\ ~blob_cache[n].data.some
    /\ (reply.op = "read" /\ reply.retry) => reply.fetch \in {"ok", "failed"}

\* a read whose fetch succeeded after the previous fetch of the same File failed
C7_Witness ==
    reply.op = "read" /\ reply.retry /\ reply.fetch = "ok" /\ reply.kind = "data"

\* C8: read (on a tree built from valid names) replies NotFound for an unknown
\* identifier, NotAFile for a Directory, and an I/O error only when the remote
\* fetch failed.
C8_ReadErrorsDistinct ==
    (AllValid /\ reply.op = "read") =>
        /\ OnUnknown => (reply.kind = "error" /\ reply.code = ENOENT)
        /\ OnDirectory => (reply.kind = "error" /\ reply.code \notin {EIO, ENOENT})
        /\ (reply.kind = "error" /\ reply.code = EIO) => reply.fetch = "failed"

\* C9: readdir (on a tree built from valid names) replies NotFound for an
\* unknown identifier and NotADirectory for a File.
C9_ReaddirErrorsDistinct ==
    (AllValid /\ reply.op = "readdir") =>
        /\ OnUnknown => (reply.kind = "error" /\ reply.code = ENOENT)
        /\ OnFile => (reply.kind = "error" /\ reply.code = ENOTDIR)

\* C10: lookup in a Directory of a name that is not among its children replies
\* NotFound, lookup with a File as parent replies NotADirectory, and neither
\* panics.
C10_LookupErrors ==
    reply.op = "lookup" =>
        /\ (OnDirectory /\ reply.name \notin DOMAIN GetEntryByInode(reply.ino).val.entries)
              => (reply.kind = "error" /\ reply.code = ENOENT)
        /\ OnFile => (reply.kind = "error" /\ reply.code = ENOTDIR)
        /\ reply.kind # "panic"

\* a lookup of an absent name in a directory other than root
C10_Witness ==
    /\ reply.op = "lookup" /\ OnDirectory /\ reply.ino # FUSE_ROOT_ID
    /\ reply.name \notin DOMAIN GetEntryByInode(reply.ino).val.entries
    /\ reply.kind = "error" /\ reply.code = ENOENT

\* the names a listing session has emitted so far
EmittedNames == {session.emitted[i].name : i \in 1..Len(session.emitted)}

\* the children map of the directory a listing session is about
SessionChildren == blob_cache[session.path.val].entries

\* C11: a listing session (first readdir at offset 0, each following one at the
\* count of entries emitted so far, any buffer capacity of at least one entry)
\* emits no child twice, emits each child under the identifier the directory
\* maps it to and with the running count as its offset, and once a call of the
\* session comes back empty every child of the directory ("." and ".."
\* included) has been emitted, so that nothing more is emitted afterwards.
C11_SessionEnumeratesOnce ==
    session.path.some =>
        /\ blob_cache[session.path.val].kind = "Directory"
        /\ \A i, j \in 1..Len(session.emitted) :
              session.emitted[i].name = session.emitted[j].name => i = j
        /\ \A i \in 1..Len(session.emitted) :
              /\ session.emitted[i].name \in DOMAIN SessionChildren
              /\ session.emitted[i].ino = SessionChildren[session.emitted[i].name]
              /\ session.emitted[i].offset = i
        /\ session.done => EmittedNames = DOMAIN SessionChildren
        /\ (reply.op = "readdir" /\ reply.kind = "dir" /\ reply.entries = << >>
               /\ reply.offset = Len(session.emitted)
               /\ inode_map[reply.ino] = session.path.val)
              => EmittedNames = DOMAIN SessionChildren

\* a session over a directory with two children beside "." and "..", finished
\* by an empty reply after more than one call that emitted entries
C11_Witness ==
    /\ session.path.some /\ session.done
    /\ Len(session.emitted) = 4
    /\ reply.op = "readdir" /\ reply.kind = "dir" /\ reply.entries = << >>
    /\ reply.offset = 4

\* the identifier resolves through get_entry_by_inode
Resolves(i) == GetEntryByInode(i).some

\* C12: after construction from any listing, every identifier a handler hands
\* to its caller resolves through get_entry_by_inode to an entry: every
\* identifier in a children map (those of "." and ".." included), so that
\* readdir never unwraps an absent child, every identifier a readdir reply
\* emits, and the identifier in every lookup and getattr reply.
C12_IdentifiersResolve ==
    /\ Constructed =>
          \A p \in DOMAIN blob_cache :
              blob_cache[p].kind = "Directory" =>
                  \A n \in DOMAIN blob_cache[p].entries :
                      Resolves(blob_cache[p].entries[n])
    /\ reply.op = "readdir" =>
          /\ reply.kind # "panic"
          /\ \A i \in 1..Len(reply.entries) : Resolves(reply.entries[i].ino)
    /\ reply.kind \in {"attr", "entry"} => Resolves(reply.attr.ino)

\* a readdir reply for a synthesized directory that emits a nested directory
C12_Witness ==
    /\ reply.op = "readdir" /\ reply.kind = "dir" /\ reply.ino # FUSE_ROOT_ID
    /\ \E i \in 1..Len(reply.entries) :
          /\ reply.entries[i].name \notin {Dot, DotDot}
          /\ reply.entries[i].kind = "Directory"
          /\ Resolves(reply.entries[i].ino)

\* the entry at the empty path is the root Directory
RootIntact ==
    /\ EmptyStr \in DOMAIN blob_cache
    /\ blob_cache[EmptyStr].kind = "Directory"
    /\ blob_cache[EmptyStr].inode = FUSE_ROOT_ID
    /\ Dot \in DOMAIN blob_cache[EmptyStr].entries
    /\ DotDot \in DOMAIN blob_cache[EmptyStr].entries
    /\ blob_cache[EmptyStr].entries[Dot] = FUSE_ROOT_ID
    /\ blob_cache[EmptyStr].entries[DotDot] = FUSE_ROOT_ID

\* C13: in every state during and after construction, for any listing, the
\* entry at the empty path exists, is a Directory, has the reserved root
\* identifier 1, and its children map holds "." and ".." both mapped to 1.
C13_RootAlways == RootIntact

\* a record with an empty name is among those load_blobs has processed
SawEmptyName == \E i \in 1..pos : listing[i].name = EmptyStr

\* C14: a construction whose listing holds a record with an empty name, or
\* whose listing source reports a page error, ends with an Error and returns no
\* container (never one built from the records seen so far), and a record with
\* an empty name never replaces or alters the root entry.
C14_DegenerateAborts ==
    /\ SawEmptyName => (~Constructed /\ RootIntact)
    /\ phase = "failed" => ~Constructed

\* the entry the identifier of the call being served resolves to
Target == GetEntryByInode(reply.ino).val

\* the content_length the listing reported for the object of that name
ListedSize(name) ==
    (CHOOSE r \in {listing[i] : i \in 1..Len(listing)} : r.name = name).size

\* C15: getattr on an identifier that resolves replies an attribute record
\* whose type is RegularFile for a File and Directory for a Directory, whose size
\* is the File's listed size, whose link count is 1 for a File and 2 for a
\* Directory, and whose owner and group are the configured user and group;
\* getattr on an identifier that does not resolve replies ENOENT.
C15_GetattrRecord ==
    reply.op = "getattr" =>
        /\ OnUnknown => (reply.kind = "error" /\ reply.code = ENOENT)
        /\ ~OnUnknown =>
              /\ reply.kind = "attr"
              /\ reply.attr.uid = Config.user_id
              /\ reply.attr.gid = Config.group_id
        /\ OnFile =>
              /\ reply.attr.kind = "RegularFile"
              /\ reply.attr.nlink = 1
              /\ reply.attr.size = ListedSize(Target.name)
        /\ OnDirectory =>
              /\ reply.attr.kind = "Directory"
              /\ reply.attr.nlink = 2

\* getattr of a File listed with a size other than 0, in a tree built from
\* valid names that also holds a File listed with size 0
C15_Witness ==
    /\ AllValid
    /\ reply.op = "getattr" /\ OnFile /\ reply.kind = "attr"
    /\ reply.attr.size > 0
    /\ reply.attr.uid = Config.user_id
    /\ \E i \in 1..Len(listing) : listing[i].size = 0

\* C16: for any listing and any order of its records, a Directory is
\* synthesized (a fresh identifier allocated and add_directory called) at most
\* once per distinct prefix path; objects that share a prefix reuse the
\* Directory there and its identifier.
C16_SynthesizedOnce ==
    \A p \in DOMAIN synthesized : synthesized[p] <= 1

\* the identifiers in use are 1 (root) and those allocated from 2 on, all of
\* them below next_inode
IdentifiersBelowNext ==
    /\ next_inode >= 2
    /\ DOMAIN inode_map = 1..(next_inode - 1)

\* a step allocates the identifiers from next_inode on, in the order it
\* discovers the entries (the synthesized directories from root to leaf, then
\* the blob), and takes no identifier that is in use
AllocatesInOrder ==
    /\ next_inode' >= next_inode
    /\ \A i \in DOMAIN inode_map :
          i \in DOMAIN inode_map' /\ inode_map'[i] = inode_map[i]
    /\ (DOMAIN inode_map') \ (DOMAIN inode_map) = next_inode..(next_inode' - 1)
    /\ \A i, j \in next_inode..(next_inode' - 1) :
          i < j => Len(inode_map'[i]) < Len(inode_map'[j])

\* C17: identifiers are allocated in strictly increasing order starting at 2,
\* just above the root identifier 1, in the order entries are discovered during
\* listing; no identifier is allocated twice, and next_inode is always greater
\* than every identifier in inode_map.
C17_IdentifiersIncrease ==
    [](IdentifiersBelowNext) /\ [][AllocatesInOrder]_vars

\* a tree built from valid names in which a directory was synthesized after a
\* blob had its identifier
C17_Witness ==
    /\ AllValid /\ phase = "built"
    /\ \E i, j \in DOMAIN inode_map :
          /\ 2 <= i /\ i < j
          /\ blob_cache[inode_map[i]].kind = "File"
          /\ blob_cache[inode_map[j]].kind = "Directory"
          /\ blob_cache[inode_map[j]].inode = j

\* an entry without its cached content
Structure(entry) == [entry EXCEPT !.data = NoData]

\* a handler is called in this step
HandlerCalled == phase = "mounted" /\ reply = NoReply /\ reply' # NoReply

\* C18: after construction no handler call changes blob_cache's key set, any
\* entry's variant, identifier, path, size or children map, inode_map or
\* next_inode; getattr, readdir and lookup leave the whole container unchanged
\* and make no remote fetch, and read changes at most the cached content of the
\* one File it reads.
C18_HandlersKeepStructure ==
    [][HandlerCalled =>
          /\ inode_map' = inode_map
          /\ next_inode' = next_inode
          /\ DOMAIN blob_cache' = DOMAIN blob_cache
          /\ \A p \in DOMAIN blob_cache :
                Structure(blob_cache'[p]) = Structure(blob_cache[p])
          /\ reply'.op \in {"getattr", "readdir", "lookup"} =>
                /\ blob_cache' = blob_cache
                /\ reply'.fetch = "none"
                /\ fetches' = fetches /\ failed' = failed
          /\ reply'.op = "read" =>
                \A p \in DOMAIN blob_cache :
                    blob_cache'[p] # blob_cache[p] =>
                        /\ p = inode_map[reply'.ino]
                        /\ blob_cache[p].kind = "File"
                        /\ blob_cache'[p].data.some]_vars

\* a read has just stored the content of one File while another File holds its
\* own content, of another length than its listed size
C18_Witness ==
    /\ reply.op = "read" /\ reply.fetch = "ok" /\ OnFile /\ FileData.some
    /\ Len(FileData.bytes) # Target.size
    /\ \E p \in DOMAIN blob_cache :
          p # inode_map[reply.ino] /\ blob_cache[p].data.some

\* C19: over any sequence of handler calls each File's cached content changes
\* at most once, from absent to present; once present it is never cleared and
\* never replaced by another value.
C19_CachedContentSetOnce ==
    [][\A p \in DOMAIN blob_cache :
          (blob_cache[p].kind = "File" /\ p \in DOMAIN blob_cache'
              /\ blob_cache'[p].kind = "File") =>
              /\ blob_cache[p].data.some => blob_cache'[p].data = blob_cache[p].data
              /\ blob_cache'[p].data # blob_cache[p].data =>
                    (~blob_cache[p].data.some /\ blob_cache'[p].data.some)]_vars

\* a read served in full from content that an earlier read stored
C19_Witness ==
    /\ reply.op = "read" /\ reply.fetch = "none" /\ OnFile /\ FileData.some
    /\ Len(FileData.bytes) = MaxContentLen
    /\ FileData.bytes = first_fetch[inode_map[reply.ino]]
    /\ reply.kind = "data" /\ Len(reply.data) = MaxReadSize

\* the content a File holds is the body of a download of it that succeeded,
\* and a read that replies data replies a window of such a body
StoredIsFetched ==
    /\ \A p \in DOMAIN blob_cache :
          (blob_cache[p].kind = "File" /\ blob_cache[p].data.some) =>
              /\ p \in DOMAIN first_fetch
              /\ blob_cache[p].data.bytes = first_fetch[p]
    /\ (reply.op = "read" /\ reply.kind = "data") =>
          /\ inode_map[reply.ino] \in DOMAIN first_fetch
          /\ reply.data = Window(first_fetch[inode_map[reply.ino]],
                                 reply.offset, reply.size)

\* a step that stores content in a File stores the whole body the remote store
\* held for the download that ends in this step
StoresWholeBody ==
    \A p \in DOMAIN blob_cache :
        (blob_cache[p].kind = "File" /\ ~blob_cache[p].data.some
            /\ p \in DOMAIN blob_cache' /\ blob_cache'[p].data.some) =>
            /\ fetching.some
            /\ p = inode_map[fetching.ino]
            /\ blob_cache'[p].data.bytes = fetching.content

\* C20: when two first reads of the same File that holds no content are in
\* flight together, in every interleaving the content stored in the File is the
\* complete body of one download that succeeded, never a part of a body or a
\* mix of two, and each of the reads that replies data replies bytes of such a
\* body; a second download may happen.
C20_ConcurrentFirstReads ==
    [](StoredIsFetched) /\ [][StoresWholeBody]_vars

\* a read that was in flight while another read downloaded the same File, and
\* is served from the body that read stored
C20_Witness ==
    /\ reply.op = "read" /\ reply.queued /\ reply.kind = "data"
    /\ reply.fetch = "none" /\ reply.data # << >>
    /\ fetches[inode_map[reply.ino]] = 1

\* load_blobs has processed every record of the listing
ListingDone == pos = Len(listing)

\* a mount exists, or a handler has been called, only on a container that
\* BlobContainer::new returned after the whole listing
ServedAfterConstruction ==
    /\ phase \in {"built", "mounted", "mount_failed", "crashed"} => ListingDone
    /\ reply # NoReply => (phase \in {"mounted", "crashed"} /\ ListingDone)

\* the mount is established from a returned container only, a handler is called
\* on the mounted filesystem only, and after a failed construction nothing
\* follows
MountFollowsConstruction ==
    /\ (phase # "mounted" /\ phase' = "mounted") => (phase = "built" /\ ListingDone)
    /\ (reply = NoReply /\ reply' # NoReply) => phase = "mounted"
    /\ phase = "failed" => (phase' = "failed" /\ reply' = NoReply)

\* C21: no handler call (getattr, readdir, lookup, read) is served before the
\* construction of the tree has completed successfully: the filesystem is
\* mounted only after BlobContainer::new has returned the container, and when
\* construction fails no mount is established and no handler ever runs.
C21_ServedAfterConstruction ==
    [](ServedAfterConstruction) /\ [][MountFollowsConstruction]_vars

\* a handler has replied on a filesystem mounted over a tree of two blobs
C21_Witness ==
    /\ phase = "mounted" /\ reply # NoReply /\ reply.kind # "error"
    /\ ListingDone /\ Len(listing) = MaxBlobs

\* C22: after construction (from valid names), for every identifier i in
\* inode_map the entry that get_entry_by_inode(i) reaches stores identifier i,
\* so getattr(i) replies a record whose inode number is i and lookup replies a
\* record whose inode number is the one the parent's children map holds for the
\* name; no identifier resolves to an entry that carries another identifier.
C22_ResolvesToOwnIdentifier ==
    (Constructed /\ AllValid) =>
        /\ \A i \in DOMAIN inode_map :
              Resolves(i) => GetEntryByInode(i).val.inode = i
        /\ (reply.op = "getattr" /\ reply.kind = "attr") => reply.attr.ino = reply.ino
        /\ (reply.op = "lookup" /\ reply.kind = "entry") =>
              reply.attr.ino = Target.entries[reply.name]

====
